---- MODULE Spec2Model ----
(***************************************************************************)
(* Predator-prey simulation (foxes and mice) on a halo-padded landscape:   *)
(* a model of src/predator_prey/simulate_predator_prey.py.                 *)
(*                                                                         *)
(* Densities, rates and delta_t are drawn from small sets of integers, on  *)
(* which the float arithmetic of the program is exact.  The landscape file *)
(* is read line by line, each line drawn from Lines.                       *)
(***************************************************************************)
EXTENDS Integers, Sequences, FiniteSets, TLC

VARIABLES
    pc,                 \* position in simulate()
    header,             \* tokens of the first line of the landscape file
    width, height,      \* parsed dimensions
    landscape,          \* (height+2) x (width+2) array of int
    row,                \* enumerate(file, start=1): index of the last line read
    badCount, badToken, \* history: a line with token count /= width, a token not 0/1
    mouse_seed, fox_seed,
    mouse_rates, fox_rates, delta_t, time_step_interval, duration,
    rng,                \* state of the process-wide random generator
    num_land_squares, num_neighbors,
    arr,                \* the density arrays, by array identity
    mouse_density, fox_density, new_mouse_density, new_fox_density,  \* references
    total_time_steps, i,
    csv,                \* data rows of averages.csv, in write order
    ppm,                \* map_NNNN.ppm files, in write order
    kernelCalls,        \* history: number of update_densities calls
    written             \* history: the arrays the last update_densities wrote

vars == <<pc, header, width, height, landscape, row, badCount, badToken,
          mouse_seed, fox_seed, mouse_rates, fox_rates, delta_t,
          time_step_interval, duration, rng, num_land_squares, num_neighbors,
          arr, mouse_density, fox_density, new_mouse_density, new_fox_density,
          total_time_steps, i, csv, ppm, kernelCalls, written>>

inputs == <<header, mouse_seed, fox_seed, mouse_rates, fox_rates, delta_t,
            time_step_interval, duration>>

grid == <<width, height, landscape, row, badCount, badToken>>

fields == <<arr, mouse_density, fox_density, new_mouse_density, new_fox_density>>

----------------------------------------------------------------------------
(* Bounds of the model *)

MaxLineLen == 3
MaxInterval == 2
MaxDuration == 3

(* Inputs *)

LineTokens == {"0", "1", "-1", "x"}

SeqsUpTo(S, n) == UNION {[1..k -> S] : k \in 0..n}

Headers == {<<"1", "1">>, <<"2", "1">>, <<"1", "2">>,
            <<"0", "1">>, <<"1", "0">>, <<"-1", "1">>, <<"x", "1">>,
            <<"1">>, <<"1", "1", "1">>}
Lines == SeqsUpTo(LineTokens, MaxLineLen)

SeedPairs == {<<1, 1>>, <<1, 2>>}
RatePairs == {<<<<1, 1, 1>>, <<1, 1, 1>>>>, <<<<-1, 0, 1>>, <<0, 2, -1>>>>}
DeltaTs == {1, 2}
Intervals == 1..MaxInterval
Durations == 1..MaxDuration
RngStates == 0..6

----------------------------------------------------------------------------
(* int(): the tokens Python's int() parses, and their values *)

IsIntToken(tok) == tok \in {"-1", "0", "1", "2"}

IntOf(tok) ==
    CASE tok = "-1" -> -1
      [] tok = "0" -> 0
      [] tok = "1" -> 1
      [] tok = "2" -> 2

Cells(h, w) == (0..h+1) \X (0..w+1)

Interior(h, w) == (1..h) \X (1..w)

\* range(1, height + 1) x range(1, width + 1), in loop order
RowMajor(h, w) == [k \in 1..(h * w) |-> <<((k - 1) \div w) + 1, ((k - 1) % w) + 1>>]

Zeros(h, w) == [c \in Cells(h, w) |-> 0]

RECURSIVE SumOver(_, _)
SumOver(f, S) ==
    IF S = {} THEN 0
    ELSE LET c == CHOOSE c \in S : TRUE IN f[c] + SumOver(f, S \ {c})

RECURSIVE MaxOver(_, _)
MaxOver(f, S) ==
    LET c == CHOOSE c \in S : TRUE IN
    IF S = {c} THEN f[c]
    ELSE LET m == MaxOver(f, S \ {c}) IN IF f[c] > m THEN f[c] ELSE m

----------------------------------------------------------------------------
(* read_landscape *)

HeaderParses(hd) == Len(hd) = 2 /\ \A k \in 1..2 : IsIntToken(hd[k])

\* landscape[row, 1:width+1] = values: numpy broadcasts a single value
RowAssignable(r, values, h, w) ==
    /\ r <= h + 1
    /\ Len(values) = w \/ Len(values) = 1

AssignRow(ls, r, values, w) ==
    [c \in DOMAIN ls |->
        IF c[1] = r /\ c[2] \in 1..w
        THEN (IF Len(values) = 1 THEN values[1] ELSE values[c[2]])
        ELSE ls[c]]

ReadHeader ==
    /\ pc = "open"
    /\ IF HeaderParses(header) /\ IntOf(header[1]) > 0 /\ IntOf(header[2]) > 0
       THEN /\ width' = IntOf(header[1])
            /\ height' = IntOf(header[2])
            /\ landscape' = Zeros(IntOf(header[2]), IntOf(header[1]))
            /\ pc' = "rows"
       ELSE /\ pc' = "error"
            /\ UNCHANGED <<width, height, landscape>>
    /\ UNCHANGED <<row, badCount, badToken, inputs, rng, num_land_squares,
                   num_neighbors, fields, total_time_steps, i, csv, ppm,
                   kernelCalls, written>>

ReadRow ==
    /\ pc = "rows"
    /\ \E line \in Lines :
        /\ row' = row + 1
        /\ badCount' = (badCount \/ Len(line) /= width)
        /\ badToken' = (badToken \/ \E k \in 1..Len(line) : line[k] \notin {"0", "1"})
        /\ IF /\ \A k \in 1..Len(line) : IsIntToken(line[k])
              /\ RowAssignable(row + 1, line, height, width)
           THEN /\ landscape' = AssignRow(landscape, row + 1,
                                          [k \in 1..Len(line) |-> IntOf(line[k])], width)
                /\ pc' = "rows"
           ELSE /\ pc' = "error"
                /\ UNCHANGED landscape
    /\ UNCHANGED <<width, height, inputs, rng, num_land_squares, num_neighbors,
                   fields, total_time_steps, i, csv, ppm, kernelCalls, written>>

----------------------------------------------------------------------------
(* calculate_land_neighbors, np.count_nonzero *)

CountNonzero(ls) == Cardinality({c \in DOMAIN ls : ls[c] /= 0})

NeighborSum(f, c) ==
    f[<<c[1] - 1, c[2]>>] + f[<<c[1] + 1, c[2]>>] +
    f[<<c[1], c[2] - 1>>] + f[<<c[1], c[2] + 1>>]

calculate_land_neighbors(ls, h, w) ==
    [c \in DOMAIN ls |-> IF c \in Interior(h, w) THEN NeighborSum(ls, c) ELSE 0]

\* end of file: read_landscape returns; simulate counts land and neighbors
BuildGrid ==
    /\ pc = "rows"
    /\ num_land_squares' = CountNonzero(landscape)
    /\ num_neighbors' = calculate_land_neighbors(landscape, height, width)
    /\ pc' = "init"
    /\ UNCHANGED <<grid, inputs, rng, fields, total_time_steps, i, csv, ppm,
                   kernelCalls, written>>

----------------------------------------------------------------------------
(* The process-wide generator of the random module: random.seed(seed)     *)
(* replaces its state by one that depends on the seed alone, and each      *)
(* random.uniform(0, 5.0) advances the state and returns a value of [0, 5] *)

SeedState(seed) == seed % 7

\* the generator is not reseeded: the draws continue from the state it was in
RandomSeedMut(seed, state) == state

RandomSeed(seed, state) == SeedState(seed)

RngStep(state) == (3 * state + 1) % 7

Uniform(state) == state % 6

\* the double loop of initialize_density_array from position k of the loop order
RECURSIVE DrawCells(_, _, _, _)
DrawCells(ls, acc, order, k) ==
    IF k > Len(order) THEN acc
    ELSE LET c == order[k] IN
         IF ls[c] /= 0
         THEN LET s == RngStep(acc.rng) IN
              DrawCells(ls, [density |-> [acc.density EXCEPT ![c] = Uniform(s)], rng |-> s],
                        order, k + 1)
         ELSE DrawCells(ls, [acc EXCEPT !.density[c] = 0], order, k + 1)

\* returns the density array and the state the generator is left in
initialize_density_array(ls, seed, h, w, state) ==
    DrawCells(ls, [density |-> ls, rng |-> RandomSeed(seed, state)],
              RowMajor(h, w), 1)

----------------------------------------------------------------------------
(* calculate_averages: the quotient sum / num_land_squares as a fraction *)

\* the guard against num_land_squares = 0 is missing
calculate_averagesMut(density, n) ==
    [num |-> SumOver(density, DOMAIN density), den |-> n]

calculate_averages(density, n) ==
    IF n /= 0 THEN [num |-> SumOver(density, DOMAIN density), den |-> n]
    ELSE [num |-> 0, den |-> 1]

\* the record print_and_write_averages appends through write_averages
AveragesRow(index, m, f, n) ==
    [index |-> index, mice |-> calculate_averages(m, n),
     foxes |-> calculate_averages(f, n)]

\* int(duration / delta_t), for the positive values drawn here
TotalTimeSteps(d, dt) == d \div dt

InitFields ==
    /\ pc = "init"
    /\ LET m == initialize_density_array(landscape, mouse_seed, height, width, rng)
           f == initialize_density_array(landscape, fox_seed, height, width, m.rng)
       IN /\ arr' = <<m.density, f.density, m.density, f.density>>
          /\ rng' = f.rng
          /\ csv' = <<AveragesRow(0, m.density, f.density, num_land_squares)>>
    /\ mouse_density' = 1
    /\ fox_density' = 2
    /\ new_mouse_density' = 3
    /\ new_fox_density' = 4
    /\ total_time_steps' = TotalTimeSteps(duration, delta_t)
    /\ i' = 0
    /\ pc' = "loop"
    /\ UNCHANGED <<grid, inputs, num_land_squares, num_neighbors, ppm,
                   kernelCalls, written>>

----------------------------------------------------------------------------
(* generate_color_maps, write_ppm_file *)

\* int((density / max) * 255) if max else 0
ColorLevel(d, max) == IF max /= 0 THEN (d * 255) \div max ELSE 0

PixelIsLand(ls, c) == ls[c] /= 0

\* one pixel per interior cell, in row-major order
PpmPixels(m, f, ls, h, w) ==
    LET maxm == MaxOver(m, DOMAIN m)
        maxf == MaxOver(f, DOMAIN f)
        order == RowMajor(h, w)
    IN [k \in 1..Len(order) |->
           IF PixelIsLand(ls, order[k])
           THEN <<ColorLevel(f[order[k]], maxf), ColorLevel(m[order[k]], maxm), 0>>
           ELSE <<0, 200, 255>>]

----------------------------------------------------------------------------
(* update_densities *)

Clamp(v) == IF v < 0 THEN 0 ELSE v

\* the mouse diffusion reads the neighbors from the array being written
UpdateCellMut(a, m, f, nm, nf, c) ==
    IF landscape[c] /= 0
    THEN LET md == a[m][c]
             fd == a[f][c]
             mn == num_neighbors[c]
             growth == mouse_rates[1] * md
             predation == mouse_rates[2] * md * fd
             diffusion == mouse_rates[3] * (NeighborSum(a[nm], c) - mn * md)
             a1 == [a EXCEPT ![nm][c] =
                       Clamp(md + delta_t * (growth - predation + diffusion))]
             fox_growth == fox_rates[1] * md * fd
             starvation == fox_rates[2] * fd
             fox_diffusion == fox_rates[3] * (NeighborSum(a1[f], c) - mn * fd)
         IN [a1 EXCEPT ![nf][c] =
                Clamp(fd + delta_t * (fox_growth - starvation + fox_diffusion))]
    ELSE a

\* one iteration of the double loop: cell c, on the arrays a, with the
\* references m, f (read) and nm, nf (written)
UpdateCell(a, m, f, nm, nf, c) ==
    IF landscape[c] /= 0
    THEN LET md == a[m][c]
             fd == a[f][c]
             mn == num_neighbors[c]
             growth == mouse_rates[1] * md
             predation == mouse_rates[2] * md * fd
             diffusion == mouse_rates[3] * (NeighborSum(a[m], c) - mn * md)
             a1 == [a EXCEPT ![nm][c] =
                       Clamp(md + delta_t * (growth - predation + diffusion))]
             fox_growth == fox_rates[1] * md * fd
             starvation == fox_rates[2] * fd
             fox_diffusion == fox_rates[3] * (NeighborSum(a1[f], c) - mn * fd)
         IN [a1 EXCEPT ![nf][c] =
                Clamp(fd + delta_t * (fox_growth - starvation + fox_diffusion))]
    ELSE a

RECURSIVE VisitCells(_, _, _, _, _, _, _)
VisitCells(a, m, f, nm, nf, order, k) ==
    IF k > Len(order) THEN a
    ELSE VisitCells(UpdateCell(a, m, f, nm, nf, order[k]), m, f, nm, nf, order, k + 1)

update_densities(a, m, f, nm, nf) ==
    VisitCells(a, m, f, nm, nf, RowMajor(height, width), 1)

----------------------------------------------------------------------------
(* the time loop of simulate *)

\* for i in range(total_time_steps)
LoopContinues(idx, total) == idx < total

\* sampling at the end of an interval instead of its start
IsSamplingPointMut(idx, interval) == (idx + 1) % interval = 0

\* if i % time_step_interval == 0
IsSamplingPoint(idx, interval) == idx % interval = 0

\* sampling reads the next buffers
SampledArraysMut(cur, nxt) == nxt

\* the arrays print_and_write_averages and generate_and_write_maps are given
SampledArrays(cur, nxt) == cur

Sample ==
    /\ pc = "loop"
    /\ LoopContinues(i, total_time_steps)
    /\ IsSamplingPoint(i, time_step_interval)
    /\ LET m == arr[SampledArrays(mouse_density, new_mouse_density)]
           f == arr[SampledArrays(fox_density, new_fox_density)]
       IN /\ csv' = Append(csv, AveragesRow(i, m, f, num_land_squares))
          /\ ppm' = Append(ppm, [index |-> i,
                                 pixels |-> PpmPixels(m, f, landscape, height, width)])
    /\ pc' = "kernel"
    /\ UNCHANGED <<grid, inputs, rng, num_land_squares, num_neighbors, fields,
                   total_time_steps, i, kernelCalls, written>>

NoSample ==
    /\ pc = "loop"
    /\ LoopContinues(i, total_time_steps)
    /\ ~IsSamplingPoint(i, time_step_interval)
    /\ pc' = "kernel"
    /\ UNCHANGED <<grid, inputs, rng, num_land_squares, num_neighbors, fields,
                   total_time_steps, i, csv, ppm, kernelCalls, written>>

Kernel ==
    /\ pc = "kernel"
    /\ arr' = update_densities(arr, mouse_density, fox_density,
                               new_mouse_density, new_fox_density)
    /\ kernelCalls' = kernelCalls + 1
    /\ written' = <<new_mouse_density, new_fox_density>>
    /\ pc' = "swap"
    /\ UNCHANGED <<grid, inputs, rng, num_land_squares, num_neighbors,
                   mouse_density, fox_density, new_mouse_density, new_fox_density,
                   total_time_steps, i, csv, ppm>>

\* a = b; b = a
SwapRefsMut(cur, nxt) == <<nxt, nxt>>

\* a, b = b, a
SwapRefs(cur, nxt) == <<nxt, cur>>

Swap ==
    /\ pc = "swap"
    /\ LET mice == SwapRefs(mouse_density, new_mouse_density)
           foxes == SwapRefs(fox_density, new_fox_density)
       IN /\ mouse_density' = mice[1]
          /\ new_mouse_density' = mice[2]
          /\ fox_density' = foxes[1]
          /\ new_fox_density' = foxes[2]
    /\ i' = i + 1
    /\ pc' = "loop"
    /\ UNCHANGED <<grid, inputs, rng, num_land_squares, num_neighbors, arr,
                   total_time_steps, csv, ppm, kernelCalls, written>>

Finish ==
    /\ pc = "loop"
    /\ ~LoopContinues(i, total_time_steps)
    /\ pc' = "done"
    /\ UNCHANGED <<grid, inputs, rng, num_land_squares, num_neighbors, fields,
                   total_time_steps, i, csv, ppm, kernelCalls, written>>

----------------------------------------------------------------------------

Init ==
    /\ pc = "open"
    /\ header \in Headers
    /\ \E p \in SeedPairs : mouse_seed = p[1] /\ fox_seed = p[2]
    /\ \E p \in RatePairs : mouse_rates = p[1] /\ fox_rates = p[2]
    /\ delta_t \in DeltaTs
    /\ time_step_interval \in Intervals
    /\ duration \in Durations
    /\ rng \in {0, 3}
    /\ width = 0
    /\ height = 0
    /\ landscape = <<>>
    /\ row = 0
    /\ badCount = FALSE
    /\ badToken = FALSE
    /\ num_land_squares = 0
    /\ num_neighbors = <<>>
    /\ arr = <<>>
    /\ mouse_density = 0
    /\ fox_density = 0
    /\ new_mouse_density = 0
    /\ new_fox_density = 0
    /\ total_time_steps = 0
    /\ i = 0
    /\ csv = <<>>
    /\ ppm = <<>>
    /\ kernelCalls = 0
    /\ written = <<0, 0>>

Next ==
    \/ ReadHeader
    \/ ReadRow
    \/ BuildGrid
    \/ InitFields
    \/ Sample
    \/ NoSample
    \/ Kernel
    \/ Swap
    \/ Finish

Spec == Init /\ [][Next]_vars

----------------------------------------------------------------------------
(* Positions *)

\* read_landscape has returned a grid
GridBuilt == pc \in {"init", "loop", "kernel", "swap", "done"}

\* the density arrays exist
Running == pc \in {"loop", "kernel", "swap", "done"}

Halo(h, w) == Cells(h, w) \ Interior(h, w)

LandCells == {c \in Interior(height, width) : landscape[c] /= 0}

----------------------------------------------------------------------------
(* C1: in every state of a run, every cell whose mask is 0 and every halo  *)
(* cell holds exactly 0 in the mouse and the fox field, in the current and *)
(* in the next buffer.                                                     *)
C1_WaterAndHaloAreZero ==
    Running =>
        \A k \in 1..4 : \A c \in Cells(height, width) :
            (landscape[c] = 0 \/ c \in Halo(height, width)) => arr[k][c] = 0

(* C2: after initialization and after every kernel step, every cell of the *)
(* mouse field and of the fox field is >= 0.                               *)
C2_DensitiesNonNegative ==
    Running => \A k \in 1..4 : \A c \in Cells(height, width) : arr[k][c] >= 0

\* the four conditions of the landscape format, on the lines read
FileConforms ==
    /\ width > 0
    /\ height > 0
    /\ row = height
    /\ ~badCount
    /\ ~badToken

(* C3: construction yields a grid only for descriptions with positive      *)
(* dimensions, exactly height data rows, width tokens in every row and     *)
(* every token 0 or 1; any other description fails with a format error.    *)
C3_GridOnlyFromConformingFile == GridBuilt => FileConforms

----------------------------------------------------------------------------
(* Sampled steps *)

SampledBelow(n) == {j \in 0..(n - 1) : j % time_step_interval = 0}

CountIndex(log, j) == Cardinality({k \in 1..Len(log) : log[k].index = j})

\* the iterations whose sampling decision has been taken
Decided == IF pc \in {"kernel", "swap"} THEN i + 1 ELSE i

(* C4 as stated: at the end of a run the log holds exactly one data row,   *)
(* and exactly one snapshot is written, for each sampled step and none for *)
(* any other step.                                                         *)
C4_OneRowAndOneSnapshotPerSampledStep ==
    pc = "done" =>
        /\ \A j \in SampledBelow(total_time_steps) :
              CountIndex(csv, j) = 1 /\ CountIndex(ppm, j) = 1
        /\ \A k \in 1..Len(csv) : csv[k].index \in SampledBelow(total_time_steps)
        /\ \A k \in 1..Len(ppm) : ppm[k].index \in SampledBelow(total_time_steps)

(* C4 amended: the log holds the row of step 0 written before the loop     *)
(* and then exactly one row for each sampled step, in step order; exactly  *)
(* one snapshot is written for each sampled step and none for any other;   *)
(* every row after the first was written with the snapshot of its step.    *)
C4_FirstRowThenOnePerSampledStep ==
    Running =>
        /\ Len(csv) = Len(ppm) + 1
        /\ csv[1].index = 0
        /\ Len(ppm) = Cardinality(SampledBelow(Decided))
        /\ \A k \in 1..Len(ppm) :
              /\ ppm[k].index = (k - 1) * time_step_interval
              /\ csv[k + 1].index = ppm[k].index
        /\ pc = "done" => Decided = total_time_steps

C4_Witness ==
    /\ pc = "done"
    /\ total_time_steps = 3
    /\ time_step_interval = 2
    /\ Len(ppm) = 2
    /\ ppm[2].index = 2
    /\ Len(csv) = 3

----------------------------------------------------------------------------
(* The fields after n kernel applications to the initial fields *)

InitialArrays ==
    LET m == initialize_density_array(landscape, mouse_seed, height, width, 0)
        f == initialize_density_array(landscape, fox_seed, height, width, 0)
    IN [a |-> <<m.density, f.density, m.density, f.density>>,
        m |-> 1, f |-> 2, nm |-> 3, nf |-> 4]

RECURSIVE AfterSteps(_)
AfterSteps(n) ==
    IF n = 0 THEN InitialArrays
    ELSE LET p == AfterSteps(n - 1) IN
         [a |-> update_densities(p.a, p.m, p.f, p.nm, p.nf),
          m |-> p.nm, f |-> p.nf, nm |-> p.m, nf |-> p.f]

MiceAfter(n) == LET p == AfterSteps(n) IN p.a[p.m]

FoxesAfter(n) == LET p == AfterSteps(n) IN p.a[p.f]

(* C5: the kernel is invoked exactly total-steps times, and every record   *)
(* and snapshot labelled with step index j is computed from the fields     *)
(* obtained by exactly j kernel applications to the initial fields;        *)
(* sampling leaves the buffers as they are.                                *)
C5_SampledAfterExactlyIndexSteps ==
    Running =>
        /\ kernelCalls = (IF pc = "swap" THEN i + 1 ELSE i)
        /\ pc = "done" => kernelCalls = total_time_steps
        /\ pc \in {"loop", "kernel", "done"} =>
              /\ arr[mouse_density] = MiceAfter(kernelCalls)
              /\ arr[fox_density] = FoxesAfter(kernelCalls)
        /\ \A k \in 1..Len(csv) :
              csv[k] = AveragesRow(csv[k].index, MiceAfter(csv[k].index),
                                   FoxesAfter(csv[k].index), num_land_squares)
        /\ \A k \in 1..Len(ppm) :
              ppm[k].pixels = PpmPixels(MiceAfter(ppm[k].index), FoxesAfter(ppm[k].index),
                                        landscape, height, width)

C5_Witness ==
    /\ pc = "done"
    /\ kernelCalls = 3
    /\ Len(ppm) = 3
    /\ ppm[3].index = 2
    /\ LandCells /= {}
    /\ MiceAfter(2) /= MiceAfter(1)
    /\ MiceAfter(1) /= MiceAfter(0)
    /\ csv[4].mice /= csv[3].mice

----------------------------------------------------------------------------
(* Orders in which the interior cells can be visited *)

VisitOrders(h, w) ==
    {o \in [1..(h * w) -> Interior(h, w)] :
        \A j, k \in 1..(h * w) : o[j] = o[k] => j = k}

(* C6: one kernel pass leaves the current buffers, the mask and the        *)
(* neighbor counts unchanged, and the arrays that result are the same for  *)
(* every order in which the cells are visited.                             *)
C6_KernelFrameAndOrder ==
    [][(pc = "kernel" /\ pc' = "swap") =>
          /\ arr'[mouse_density] = arr[mouse_density]
          /\ arr'[fox_density] = arr[fox_density]
          /\ landscape' = landscape
          /\ num_neighbors' = num_neighbors
          /\ \A o \in VisitOrders(height, width) :
                VisitCells(arr, mouse_density, fox_density,
                           new_mouse_density, new_fox_density, o, 1) = arr']_vars

\* a pass over two land cells has run and has changed both next buffers
C6_Witness ==
    /\ pc = "swap"
    /\ Cardinality(LandCells) = 2
    /\ arr[new_mouse_density] /= arr[mouse_density]
    /\ arr[new_fox_density] /= arr[fox_density]
    /\ \E c \in LandCells : arr[new_mouse_density][c] = 0 /\ arr[mouse_density][c] > 0

----------------------------------------------------------------------------
(* C7: each species has exactly two arrays, fixed once the loop starts;    *)
(* the current and the next buffer of a species are distinct arrays, never *)
(* an array of the other species; after each step the array that is        *)
(* current is the one the step before wrote as next.                       *)
C7_TwoArraysPerSpeciesSwapped ==
    Running =>
        /\ DOMAIN arr = 1..4
        /\ {mouse_density, new_mouse_density} = {1, 3}
        /\ {fox_density, new_fox_density} = {2, 4}
        /\ mouse_density /= new_mouse_density
        /\ fox_density /= new_fox_density
        /\ (pc \in {"loop", "kernel", "done"} /\ kernelCalls > 0) =>
              /\ mouse_density = written[1]
              /\ fox_density = written[2]
        /\ pc = "swap" =>
              /\ new_mouse_density = written[1]
              /\ new_fox_density = written[2]

C7_Witness ==
    /\ pc = "kernel"
    /\ kernelCalls = 2
    /\ mouse_density = 1
    /\ written = <<1, 2>>
    /\ arr[1] /= arr[3]

----------------------------------------------------------------------------
(* C8: for every landscape construction accepts, every halo cell of the    *)
(* mask is 0, neighborCount is the sum of the four neighboring mask values *)
(* on every interior cell and 0 on every halo cell.                        *)
C8_HaloWaterAndNeighborCounts ==
    GridBuilt =>
        /\ \A c \in Halo(height, width) : landscape[c] = 0
        /\ \A c \in Interior(height, width) :
              num_neighbors[c] = landscape[<<c[1] - 1, c[2]>>] + landscape[<<c[1] + 1, c[2]>>]
                                 + landscape[<<c[1], c[2] - 1>>] + landscape[<<c[1], c[2] + 1>>]
        /\ \A c \in Halo(height, width) : num_neighbors[c] = 0

----------------------------------------------------------------------------
(* C9: for a landscape with no land cell (num_land_squares = 0), every     *)
(* record reports average mice = 0 and average foxes = 0, and every        *)
(* snapshot colors every pixel (0, 200, 255).                              *)
C9_NoLandAveragesZeroAllWater ==
    (Running /\ num_land_squares = 0) =>
        /\ \A k \in 1..Len(csv) :
              /\ csv[k].mice.num = 0 /\ csv[k].mice.den /= 0
              /\ csv[k].foxes.num = 0 /\ csv[k].foxes.den /= 0
        /\ \A k \in 1..Len(ppm) :
              /\ Len(ppm[k].pixels) = height * width
              /\ \A q \in 1..Len(ppm[k].pixels) : ppm[k].pixels[q] = <<0, 200, 255>>

C9_Witness ==
    /\ pc = "done"
    /\ num_land_squares = 0
    /\ width = 2
    /\ Len(csv) = 4
    /\ Len(ppm) = 3
    /\ mouse_rates[1] = 1

----------------------------------------------------------------------------
(* C10: initialization is deterministic in (grid, seed): the array         *)
(* returned is the same for every state the process-wide generator was     *)
(* left in before the call, so the fox field, initialized after the mouse  *)
(* field, equals the mouse field when the seeds are equal.                 *)
C10_InitDeterministicInSeed ==
    (Running /\ kernelCalls = 0) =>
        /\ \A r \in RngStates :
              /\ initialize_density_array(landscape, mouse_seed, height, width, r).density
                    = arr[mouse_density]
              /\ initialize_density_array(landscape, fox_seed, height, width, r).density
                    = arr[fox_density]
        /\ mouse_seed = fox_seed => arr[mouse_density] = arr[fox_density]

\* two land cells drawn with equal seeds, different values in the two cells
C10_Witness ==
    /\ pc = "loop"
    /\ kernelCalls = 0
    /\ mouse_seed = fox_seed
    /\ Cardinality(LandCells) = 2
    /\ \E c, d \in LandCells : arr[mouse_density][c] /= arr[mouse_density][d]
    /\ arr[fox_density] = arr[mouse_density]

----------------------------------------------------------------------------
(* Diffusion: runs with rate pairs that include birth and death rates 0 *)

DiffusionRatePairs == {<<<<0, 0, 1>>, <<0, 0, 1>>>>, <<<<0, 0, 2>>, <<1, 0, -1>>>>}

InitDiffusion ==
    /\ pc = "open"
    /\ header \in Headers
    /\ mouse_seed = 1
    /\ fox_seed = 2
    /\ \E p \in DiffusionRatePairs : mouse_rates = p[1] /\ fox_rates = p[2]
    /\ delta_t = 1
    /\ time_step_interval \in Intervals
    /\ duration \in Durations
    /\ rng = 0
    /\ width = 0
    /\ height = 0
    /\ landscape = <<>>
    /\ row = 0
    /\ badCount = FALSE
    /\ badToken = FALSE
    /\ num_land_squares = 0
    /\ num_neighbors = <<>>
    /\ arr = <<>>
    /\ mouse_density = 0
    /\ fox_density = 0
    /\ new_mouse_density = 0
    /\ new_fox_density = 0
    /\ total_time_steps = 0
    /\ i = 0
    /\ csv = <<>>
    /\ ppm = <<>>
    /\ kernelCalls = 0
    /\ written = <<0, 0>>

SpecDiffusion == InitDiffusion /\ [][Next]_vars

\* (sum of the four neighbor densities) - mn * (own density)
Bracket(f, c) == NeighborSum(f, c) - num_neighbors[c] * f[c]

ZeroOffLand(f) ==
    \A c \in Cells(height, width) :
        (landscape[c] = 0 \/ c \in Halo(height, width)) => f[c] = 0

BracketSum(f) == SumOver([c \in LandCells |-> Bracket(f, c)], LandCells)

Total(f) == SumOver(f, DOMAIN f)

\* no land cell of the pass falls below 0, with birth and death rates 0
NoCellClamped ==
    \A c \in LandCells :
        /\ arr[mouse_density][c]
              + delta_t * mouse_rates[3] * Bracket(arr[mouse_density], c) >= 0
        /\ arr[fox_density][c]
              + delta_t * fox_rates[3] * Bracket(arr[fox_density], c) >= 0

BirthAndDeathZero ==
    /\ mouse_rates[1] = 0 /\ mouse_rates[2] = 0
    /\ fox_rates[1] = 0 /\ fox_rates[2] = 0

\* what C11 states of one kernel pass from the current fields
DiffusionConserves ==
    /\ BracketSum(arr[mouse_density]) = 0
    /\ BracketSum(arr[fox_density]) = 0
    /\ \A c \in LandCells :
          num_neighbors[c] = 0 =>
              /\ Bracket(arr[mouse_density], c) = 0
              /\ Bracket(arr[fox_density], c) = 0
    /\ (BirthAndDeathZero /\ NoCellClamped) =>
          /\ Total(arr'[new_mouse_density]) = Total(arr[mouse_density])
          /\ Total(arr'[new_fox_density]) = Total(arr[fox_density])

(* C11: for any grid and any current field that is 0 on water and halo     *)
(* cells, the diffusion brackets summed over the land cells equal 0 for    *)
(* each species, the bracket of a land cell with N = 0 is 0, and with      *)
(* birth and death rates 0 and no cell clamped one kernel step leaves the  *)
(* total density of each species unchanged.                                *)
C11_DiffusionConservesDensity ==
    [][(/\ pc = "kernel" /\ pc' = "swap"
        /\ ZeroOffLand(arr[mouse_density])
        /\ ZeroOffLand(arr[fox_density])) => DiffusionConserves]_vars

====
